---- MODULE Spec2Model ----
(***************************************************************************)
(* Model of manga-ocr-server/app.py: the module-level construction of the  *)
(* MangaOcr engine, the registration of the two FastAPI routes, and the    *)
(* two coroutine handlers recognize_text (/ocr) and recognize_batch        *)
(* (/ocr/batch) running on the single asyncio event loop.                  *)
(***************************************************************************)
EXTENDS Integers, Sequences, FiniteSets, TLC

(* ---------------------------- bounds ----------------------------------- *)
\* number of request slots that can be in flight at the same time
NTasks == 2
\* largest number of uploads in one /ocr/batch request
MaxBatch == 2
\* largest number of uploads held by all requests in flight together
MaxInFlight == 3

Tasks == 1..NTasks

(* ------------------------ uploaded payloads ---------------------------- *)
\* the byte payloads a client can upload: two well-formed pictures, a
\* zero-length payload (bytes that are no picture), and a picture whose
\* header parses but whose pixel data is cut short
Images == {"imgA", "imgB", "empty", "truncated"}

\* Image.open(io.BytesIO(contents)): parses the header only; raises
\* UnidentifiedImageError when the bytes are no picture
Decode(bytes) ==
    IF bytes \in {"imgA", "imgB", "truncated"}
    THEN [ok |-> TRUE, img |-> bytes, exc |-> ""]
    ELSE [ok |-> FALSE, img |-> "", exc |-> "UnidentifiedImageError"]

\* mocr(img): the engine loads the pixels and returns the text; raises
\* when the pixel data cannot be loaded
Recognize(image) ==
    IF image = "imgA" THEN [ok |-> TRUE, text |-> "textA", exc |-> ""]
    ELSE IF image = "imgB" THEN [ok |-> TRUE, text |-> "textB", exc |-> ""]
    ELSE [ok |-> FALSE, text |-> "", exc |-> "OSError"]

\* every sequence over S of length at most n
SeqUpTo(S, n) == UNION {[1..k -> S] : k \in 0..n}

VARIABLES
    proc,        \* "importing" | "serving" | "crashed"
    modpc,       \* line of app.py the module import is about to execute
    engine,      \* state of the module-level name mocr
    constructed, \* number of MangaOcr instances constructed so far
    routes,      \* paths registered on app
    loop,        \* task running on the event loop thread, 0 when idle
    kind,        \* per task: "/ocr" or "/ocr/batch" ("" when no request)
    inputs,      \* per task: the uploads of the request, in order
    pc,          \* per task: position of the handler coroutine
    idx,         \* per task: number of loop iterations completed
    results,     \* per task: local list results of recognize_batch
    contents,    \* per task: local contents
    img,         \* per task: local img
    text,        \* per task: local text
    response,    \* per task: what the client gets
    itemState,   \* per task, per upload: progress of the item
    decodeCalls, \* per task: number of Image.open calls made
    recogCalls,  \* per task: number of mocr(img) calls made
    timedOut     \* per task: the caller's deadline passed during the request

modvars == <<proc, modpc, engine, constructed, routes>>
locals == <<kind, inputs, idx, results, contents, img, text>>
ghost == <<itemState, decodeCalls, recogCalls, timedOut>>
vars == <<proc, modpc, engine, constructed, routes, loop, kind, inputs, pc,
          idx, results, contents, img, text, response, itemState,
          decodeCalls, recogCalls, timedOut>>

NoResponse == [kind |-> "none"]

Init ==
    /\ proc = "importing"
    /\ modpc = 6
    /\ engine = "Uninitialized"
    /\ constructed = 0
    /\ routes = {}
    /\ loop = 0
    /\ kind = [t \in Tasks |-> ""]
    /\ inputs = [t \in Tasks |-> <<>>]
    /\ pc = [t \in Tasks |-> "idle"]
    /\ idx = [t \in Tasks |-> 0]
    /\ results = [t \in Tasks |-> <<>>]
    /\ contents = [t \in Tasks |-> ""]
    /\ img = [t \in Tasks |-> ""]
    /\ text = [t \in Tasks |-> ""]
    /\ response = [t \in Tasks |-> NoResponse]
    /\ itemState = [t \in Tasks |-> <<>>]
    /\ decodeCalls = [t \in Tasks |-> 0]
    /\ recogCalls = [t \in Tasks |-> 0]
    /\ timedOut = [t \in Tasks |-> FALSE]

(* ------------------------- module import ------------------------------- *)
\* line 6: app = FastAPI()
CreateApp ==
    /\ proc = "importing" /\ modpc = 6
    /\ modpc' = 7
    /\ UNCHANGED <<proc, engine, constructed, routes, loop, pc, response>>
    /\ UNCHANGED <<locals, ghost>>

\* line 7: mocr = MangaOcr() starts loading the model
BeginInit ==
    /\ proc = "importing" /\ modpc = 7 /\ engine = "Uninitialized"
    /\ engine' = "Initializing"
    /\ UNCHANGED <<proc, modpc, constructed, routes, loop, pc, response>>
    /\ UNCHANGED <<locals, ghost>>

\* line 7: the constructor returns and the name mocr is bound
FinishInit ==
    /\ proc = "importing" /\ modpc = 7 /\ engine = "Initializing"
    /\ engine' = "Ready"
    /\ constructed' = constructed + 1
    /\ modpc' = 9
    /\ UNCHANGED <<proc, routes, loop, pc, response>>
    /\ UNCHANGED <<locals, ghost>>

\* line 7: the constructor raises; the import fails and the process exits
FailInit ==
    /\ proc = "importing" /\ modpc = 7 /\ engine = "Initializing"
    /\ proc' = "crashed"
    /\ UNCHANGED <<modpc, engine, constructed, routes, loop, pc, response>>
    /\ UNCHANGED <<locals, ghost>>

\* lines 9-10: @app.post("/ocr") registers recognize_text
RegisterOcr ==
    /\ proc = "importing" /\ modpc = 9
    /\ routes' = routes \cup {"/ocr"}
    /\ modpc' = 16
    /\ UNCHANGED <<proc, engine, constructed, loop, pc, response>>
    /\ UNCHANGED <<locals, ghost>>

\* lines 16-17: @app.post("/ocr/batch") registers recognize_batch; the
\* import is complete and the application starts serving
RegisterBatch ==
    /\ proc = "importing" /\ modpc = 16
    /\ routes' = routes \cup {"/ocr/batch"}
    /\ modpc' = 25
    /\ proc' = "serving"
    /\ UNCHANGED <<engine, constructed, loop, pc, response>>
    /\ UNCHANGED <<locals, ghost>>

(* --------------------------- requests ---------------------------------- *)
\* the uploads a request to the given path can carry
Payloads(path) ==
    IF path = "/ocr" THEN [1..1 -> Images] ELSE SeqUpTo(Images, MaxBatch)

AcceptingLazy(path) == TRUE

\* a request reaches a handler only once the import has run to the end of
\* the file: the routes exist from lines 9 and 16 on, after line 7
Accepting(path) == proc = "serving" /\ path \in routes

\* the event loop thread is free to run another coroutine
LoopIdleThreaded == TRUE

LoopIdle == loop = 0

\* number of uploads held by the requests of the tasks in S
RECURSIVE Uploads(_)
Uploads(S) ==
    IF S = {} THEN 0
    ELSE LET t == CHOOSE x \in S : TRUE IN Len(inputs[t]) + Uploads(S \ {t})

\* a request arrives and its handler coroutine is scheduled
Dispatch(t) ==
    /\ pc[t] = "idle"
    /\ LET room == MaxInFlight - Uploads(Tasks) IN
       \E path \in {"/ocr", "/ocr/batch"} :
        /\ Accepting(path)
        /\ \E ins \in Payloads(path) :
            /\ Len(ins) <= room
            /\ kind' = [kind EXCEPT ![t] = path]
            /\ inputs' = [inputs EXCEPT ![t] = ins]
            /\ itemState' = [itemState EXCEPT ![t] = [i \in 1..Len(ins) |-> "Received"]]
    /\ pc' = [pc EXCEPT ![t] = "ready"]
    /\ UNCHANGED <<modvars, loop, idx, results, contents, img, text, response,
                   decodeCalls, recogCalls, timedOut>>

\* a request arrives while the path has no handler yet (or the process is
\* gone): it is turned away at once, no handler runs
Refuse(t) ==
    /\ pc[t] = "idle"
    /\ \E path \in {"/ocr", "/ocr/batch"} : ~Accepting(path)
    /\ pc' = [pc EXCEPT ![t] = "done"]
    /\ response' = [response EXCEPT ![t] = [kind |-> "refused"]]
    /\ UNCHANGED <<modvars, loop, locals, ghost>>

(* --------------------------- handlers ---------------------------------- *)
\* an exception leaves the handler uncaught: neither handler has a try
\* block, so the coroutine ends, its locals are gone and the client gets a
\* fault instead of a payload
Raise(t, exc) ==
    /\ pc' = [pc EXCEPT ![t] = "done"]
    /\ response' = [response EXCEPT ![t] = [kind |-> "fault", exc |-> exc]]
    /\ loop' = 0

\* line 14: return {"text": text}
TextResponse(txt) == [kind |-> "text", text |-> txt]

BatchResponseNonEmpty(res) ==
    IF res = <<>> THEN [kind |-> "fault", exc |-> "ValueError"]
    ELSE [kind |-> "results", results |-> res]

\* line 24: return {"results": results}
BatchResponse(res) == [kind |-> "results", results |-> res]

AppendResultShared(all, t, r) == [u \in Tasks |-> Append(all[u], r)]

\* line 23: results.append({"text": text}) on the list local to the call
AppendResult(all, t, r) == [all EXCEPT ![t] = Append(@, r)]

\* line 19: for image in images has another element to take
HasNext(images, done) == done < Len(images)

\* the coroutine starts: recognize_text runs to its await on line 11,
\* recognize_batch binds results = [] and runs to its first await on line
\* 20, or straight to the return on line 24 when images is empty
Begin(t) ==
    /\ pc[t] = "ready" /\ LoopIdle
    /\ idx' = [idx EXCEPT ![t] = 0]
    /\ results' = [results EXCEPT ![t] = <<>>]
    /\ IF kind[t] = "/ocr/batch" /\ ~HasNext(inputs[t], 0)
       THEN /\ pc' = [pc EXCEPT ![t] = "done"]
            /\ response' = [response EXCEPT ![t] = BatchResponse(<<>>)]
       ELSE /\ pc' = [pc EXCEPT ![t] = "await"]
            /\ UNCHANGED response
    /\ UNCHANGED <<modvars, loop, kind, inputs, contents, img, text, ghost>>

\* lines 11 and 20: contents = await image.read() completes and the
\* coroutine is resumed on the event loop
ReadDone(t) ==
    /\ pc[t] = "await" /\ LoopIdle
    /\ contents' = [contents EXCEPT ![t] = inputs[t][idx[t] + 1]]
    /\ pc' = [pc EXCEPT ![t] = "open"]
    /\ loop' = t
    /\ UNCHANGED <<modvars, kind, inputs, idx, results, img, text, response,
                   ghost>>

ImageOpenRetry(t) ==
    /\ pc[t] = "open" /\ loop = t
    /\ decodeCalls' = [decodeCalls EXCEPT ![t] = @ + 1]
    /\ LET d == Decode(contents[t]) IN
       IF d.ok
       THEN /\ img' = [img EXCEPT ![t] = d.img]
            /\ itemState' = [itemState EXCEPT ![t][idx[t] + 1] = "Decoded"]
            /\ pc' = [pc EXCEPT ![t] = "mocr"]
            /\ UNCHANGED <<response, loop>>
       ELSE /\ itemState' = [itemState EXCEPT ![t][idx[t] + 1] = "DecodeFailed"]
            /\ UNCHANGED <<img, pc, response, loop>>
    /\ UNCHANGED <<modvars, kind, inputs, idx, results, contents, text,
                   recogCalls, timedOut>>

\* lines 12 and 21: img = Image.open(io.BytesIO(contents))
ImageOpen(t) ==
    /\ pc[t] = "open" /\ loop = t
    /\ decodeCalls' = [decodeCalls EXCEPT ![t] = @ + 1]
    /\ LET d == Decode(contents[t]) IN
       IF d.ok
       THEN /\ img' = [img EXCEPT ![t] = d.img]
            /\ itemState' = [itemState EXCEPT ![t][idx[t] + 1] = "Decoded"]
            /\ pc' = [pc EXCEPT ![t] = "mocr"]
            /\ UNCHANGED <<response, loop>>
       ELSE /\ itemState' = [itemState EXCEPT ![t][idx[t] + 1] = "DecodeFailed"]
            /\ Raise(t, d.exc)
            /\ UNCHANGED img
    /\ UNCHANGED <<modvars, kind, inputs, idx, results, contents, text,
                   recogCalls, timedOut>>

\* lines 13-14 and 22-24: text = mocr(img), then the return of
\* recognize_text, or the append and the next turn of the loop of
\* recognize_batch (the next await, or the return when images is used up)
MocrBody(t) ==
    /\ pc[t] = "mocr" /\ loop = t
    /\ IF engine # "Ready"
       THEN /\ Raise(t, "NameError")
            /\ UNCHANGED <<text, results, idx, itemState, recogCalls>>
       ELSE
        /\ recogCalls' = [recogCalls EXCEPT ![t] = @ + 1]
        /\ LET r == Recognize(img[t]) IN
           IF ~r.ok
           THEN /\ itemState' = [itemState EXCEPT ![t][idx[t] + 1] = "InferenceFailed"]
                /\ Raise(t, r.exc)
                /\ UNCHANGED <<text, results, idx>>
           ELSE /\ itemState' = [itemState EXCEPT ![t][idx[t] + 1] = "Recognized"]
                /\ text' = [text EXCEPT ![t] = r.text]
                /\ loop' = 0
                /\ IF kind[t] = "/ocr"
                   THEN /\ pc' = [pc EXCEPT ![t] = "done"]
                        /\ response' = [response EXCEPT ![t] = TextResponse(r.text)]
                        /\ UNCHANGED <<results, idx>>
                   ELSE /\ results' = AppendResult(results, t, [text |-> r.text])
                        /\ idx' = [idx EXCEPT ![t] = @ + 1]
                        /\ IF HasNext(inputs[t], idx[t] + 1)
                           THEN /\ pc' = [pc EXCEPT ![t] = "await"]
                                /\ UNCHANGED response
                           ELSE /\ pc' = [pc EXCEPT ![t] = "done"]
                                /\ response' = [response EXCEPT ![t] = BatchResponse(results'[t])]
    /\ UNCHANGED <<proc, modpc, routes, kind, inputs, contents, img,
                   decodeCalls, timedOut>>

MocrCallReconstruct(t) ==
    /\ MocrBody(t)
    /\ engine' = "Ready"
    /\ constructed' = constructed + 1

\* the call uses the module-level mocr; no handler rebinds it
MocrCall(t) ==
    /\ MocrBody(t)
    /\ UNCHANGED <<engine, constructed>>

\* the response (payload or fault) is sent and the request slot is free
Deliver(t) ==
    /\ pc[t] = "done"
    /\ pc' = [pc EXCEPT ![t] = "idle"]
    /\ kind' = [kind EXCEPT ![t] = ""]
    /\ inputs' = [inputs EXCEPT ![t] = <<>>]
    /\ idx' = [idx EXCEPT ![t] = 0]
    /\ results' = [results EXCEPT ![t] = <<>>]
    /\ contents' = [contents EXCEPT ![t] = ""]
    /\ img' = [img EXCEPT ![t] = ""]
    /\ text' = [text EXCEPT ![t] = ""]
    /\ response' = [response EXCEPT ![t] = NoResponse]
    /\ itemState' = [itemState EXCEPT ![t] = <<>>]
    /\ decodeCalls' = [decodeCalls EXCEPT ![t] = 0]
    /\ recogCalls' = [recogCalls EXCEPT ![t] = 0]
    /\ timedOut' = [timedOut EXCEPT ![t] = FALSE]
    /\ UNCHANGED <<modvars, loop>>

\* the caller's deadline passes while the coroutine is suspended on line 11
\* or 20: the coroutine is cancelled there, nothing catches the
\* cancellation, and the caller is left with a timeout fault
Timeout(t) ==
    /\ pc[t] = "await"
    /\ pc' = [pc EXCEPT ![t] = "done"]
    /\ response' = [response EXCEPT ![t] = [kind |-> "fault", exc |-> "TimeoutError"]]
    /\ timedOut' = [timedOut EXCEPT ![t] = TRUE]
    /\ UNCHANGED <<modvars, loop, locals, itemState, decodeCalls, recogCalls>>

Next ==
    \/ CreateApp
    \/ BeginInit
    \/ FinishInit
    \/ FailInit
    \/ RegisterOcr
    \/ RegisterBatch
    \/ \E t \in Tasks : Dispatch(t)
    \/ \E t \in Tasks : Refuse(t)
    \/ \E t \in Tasks : Begin(t)
    \/ \E t \in Tasks : ReadDone(t)
    \/ \E t \in Tasks : ImageOpen(t)
    \/ \E t \in Tasks : MocrCall(t)
    \/ \E t \in Tasks : Deliver(t)

Spec == Init /\ [][Next]_vars

NextTimeout == Next \/ \E t \in Tasks : Timeout(t)

SpecTimeout == Init /\ [][NextTimeout]_vars

TypeOK ==
    /\ proc \in {"importing", "serving", "crashed"}
    /\ loop \in Tasks \cup {0}
    /\ \A t \in Tasks : pc[t] \in {"idle", "ready", "await", "open", "mocr", "done"}

(* ------------------------ vocabulary of the claims --------------------- *)
\* the upload cannot be turned into text: its decode or its recognition fails
Corrupt(bytes) == ~Decode(bytes).ok \/ ~Recognize(Decode(bytes).img).ok

\* the text the engine finds in a valid upload
TextOf(bytes) == Recognize(Decode(bytes).img).text

\* the handler of t ran and ended (the request was not turned away)
Served(t) == pc[t] = "done" /\ response[t].kind # "refused"

IsBatch(t) == kind[t] = "/ocr/batch"

\* a per-item result that is an error payload
IsError(r) == "error" \in DOMAIN r

\* the per-item result expected for an upload
ItemResultOK(r, bytes) ==
    IF Corrupt(bytes) THEN IsError(r) ELSE r = [text |-> TextOf(bytes)]

\* a list of exactly one result per upload, each at its upload's position
OneResultPerInput(resp, ins) ==
    /\ resp.kind = "results"
    /\ Len(resp.results) = Len(ins)
    /\ \A i \in 1..Len(ins) : ItemResultOK(resp.results[i], ins[i])

\* C1: a batch with exactly one corrupt upload among valid ones ends with N
\* results, an error in the corrupt upload's slot only and every other
\* upload's text at its position.
FailureIsolated ==
    \A t \in Tasks :
        ( /\ Served(t) /\ IsBatch(t)
          /\ Cardinality({i \in 1..Len(inputs[t]) : Corrupt(inputs[t][i])}) = 1 )
        => OneResultPerInput(response[t], inputs[t])

\* C2: every batch, whatever mix of valid and invalid uploads it holds, ends
\* with exactly N results in input order, result i being the outcome of
\* upload i.
BatchOrderPreserved ==
    \A t \in Tasks :
        (Served(t) /\ IsBatch(t))
        => /\ response[t].kind = "results"
           /\ Len(response[t].results) = Len(inputs[t])
           /\ \A i \in 1..Len(inputs[t]) :
                ItemResultOK(response[t].results[i], inputs[t][i])

\* C3: a single-image request never ends in a fault: a decode or inference
\* failure (a zero-length payload included) comes back as an error payload.
ErrorsAreData ==
    \A t \in Tasks :
        (Served(t) /\ kind[t] = "/ocr")
        => /\ response[t].kind # "fault"
           /\ Corrupt(inputs[t][1]) => response[t].kind = "error"

\* C4: a handler runs, and the engine is called, only once the engine is
\* Ready; a request made earlier is turned away at once without running a
\* handler; after a failed initialization no request is ever served.
RecognitionOnlyWhenReady ==
    /\ \A t \in Tasks :
        /\ pc[t] \in {"ready", "await", "open", "mocr"} => engine = "Ready"
        /\ (pc[t] = "done" /\ response[t].kind # "refused") => engine = "Ready"
        /\ recogCalls[t] > 0 => engine = "Ready"
    /\ engine # "Ready" =>
        \A t \in Tasks :
            /\ pc[t] \in {"idle", "done"}
            /\ decodeCalls[t] = 0 /\ recogCalls[t] = 0
            /\ pc[t] = "done" => response[t] = [kind |-> "refused"]
    /\ proc = "crashed" => engine # "Ready"

\* a handler is inside the engine call while the engine is Ready
RecognitionOnlyWhenReadyWitness ==
    \E t \in Tasks : pc[t] = "mocr" /\ engine = "Ready" /\ proc = "serving"

\* C5: at most one call of the engine is in progress at any time, however
\* many requests are in flight.
RecognizeSerialized ==
    /\ Cardinality({t \in Tasks : pc[t] = "mocr"}) <= 1
    /\ \A t \in Tasks : pc[t] \in {"open", "mocr"} => loop = t

\* one request is inside the engine call while another is in flight,
\* suspended in its own read
RecognizeSerializedWitness ==
    \E t, u \in Tasks : t # u /\ pc[t] = "mocr" /\ pc[u] = "await"

\* C6: one engine instance for the process lifetime: it is constructed once,
\* during the import; no handler step constructs or rebinds it; the engine
\* only moves Uninitialized -> Initializing -> Ready and Ready is kept.
EngineConstructedOnce ==
    [][ /\ constructed' \in {0, 1}
        /\ (constructed' = 1) <=> (engine' = "Ready")
        /\ engine = "Ready" => engine' = "Ready"
        /\ engine' # engine =>
             <<engine, engine'>> \in {<<"Uninitialized", "Initializing">>,
                                      <<"Initializing", "Ready">>}
        /\ pc' # pc => (engine' = engine /\ constructed' = constructed)
      ]_vars

\* requests, one of them failed, have gone through the handlers and the
\* single engine is still there
EngineConstructedOnceWitness ==
    /\ constructed = 1 /\ engine = "Ready"
    /\ \E t, u \in Tasks :
        /\ pc[t] = "done" /\ response[t].kind = "fault"
        /\ pc[u] = "done" /\ response[u].kind \in {"text", "results"}
        /\ recogCalls[u] > 0

TimeoutKeepsCompleted ==
    \A t \in Tasks :
        (pc[t] = "done" /\ IsBatch(t) /\ timedOut[t])
        => /\ response[t].kind = "results"
           /\ Len(response[t].results) = Len(inputs[t])
           /\ \A i \in 1..Len(inputs[t]) :
                IF i <= idx[t]
                THEN response[t].results[i] = [text |-> TextOf(inputs[t][i])]
                ELSE response[t].results[i] = [error |-> "timeout"]

ItemSteps ==
    {<<"Received", "Decoded">>, <<"Received", "DecodeFailed">>,
     <<"Decoded", "Recognized">>, <<"Decoded", "InferenceFailed">>}

\* C9: an item only moves Received -> Decoded | DecodeFailed and
\* Decoded -> Recognized | InferenceFailed; the engine is called on an item
\* only after its decode succeeded; decode and recognize run at most once
\* per item.
ItemLifecycle ==
    [][ \A t \in Tasks :
        /\ Len(itemState'[t]) = Len(itemState[t]) =>
             \A i \in 1..Len(itemState[t]) :
                itemState'[t][i] # itemState[t][i]
                => <<itemState[t][i], itemState'[t][i]>> \in ItemSteps
        /\ decodeCalls'[t] > decodeCalls[t] =>
             /\ itemState[t][idx[t] + 1] = "Received"
             /\ decodeCalls'[t] = decodeCalls[t] + 1
        /\ recogCalls'[t] > recogCalls[t] =>
             /\ itemState[t][idx[t] + 1] = "Decoded"
             /\ recogCalls'[t] = recogCalls[t] + 1
        /\ decodeCalls'[t] =
             Cardinality({i \in 1..Len(itemState'[t]) :
                            itemState'[t][i] # "Received"})
        /\ recogCalls'[t] =
             Cardinality({i \in 1..Len(itemState'[t]) :
                            itemState'[t][i] \in {"Recognized", "InferenceFailed"}})
      ]_vars

\* a batch whose first item was recognized and whose second item failed to
\* decode
ItemLifecycleWitness ==
    \E t \in Tasks :
        /\ Len(itemState[t]) >= 2
        /\ itemState[t][1] = "Recognized"
        /\ itemState[t][2] = "DecodeFailed"
        /\ decodeCalls[t] = 2 /\ recogCalls[t] = 1

\* C10: with handlers interleaved at their awaits, a batch's results list
\* holds exactly the texts of that request's own uploads processed so far,
\* in order, and every response carries only texts of its own uploads.
RequestsIsolated ==
    \A t \in Tasks :
        /\ IsBatch(t) /\ pc[t] \in {"await", "open", "mocr", "done"} =>
            /\ Len(results[t]) = idx[t]
            /\ Len(results[t]) =
                 Cardinality({i \in 1..Len(itemState[t]) :
                                itemState[t][i] = "Recognized"})
            /\ \A i \in 1..Len(results[t]) :
                 results[t][i] = [text |-> TextOf(inputs[t][i])]
        /\ ~IsBatch(t) => results[t] = <<>>
        /\ response[t].kind = "results" =>
             response[t].results =
                [i \in 1..Len(inputs[t]) |-> [text |-> TextOf(inputs[t][i])]]
        /\ response[t].kind = "text" => response[t].text = TextOf(inputs[t][1])

\* two batches in flight together, each with a text of its own in its list,
\* one of them suspended in the read of its next upload
RequestsIsolatedWitness ==
    \E t, u \in Tasks :
        /\ t # u /\ IsBatch(t) /\ IsBatch(u)
        /\ pc[t] = "await" /\ Len(results[t]) >= 1
        /\ pc[u] \in {"await", "done"} /\ Len(results[u]) >= 1
        /\ results[t][1] # results[u][1]
====
